---- MODULE Spec2Model ----
(***************************************************************************)
(* nanopolish dump-initial-alignment                                       *)
(* (src/src/nanopolish_dump_initial_alignment.cpp).                        *)
(*                                                                         *)
(* The subprogram parses its options, loads the read database, opens the   *)
(* reads file and then, for every read, inverts the per-base event-range   *)
(* table of strand 0 into event_to_base_map, opens <output_dir>/<name>.tsv *)
(* and writes a header line and one row per event.                         *)
(*                                                                         *)
(* One action stands for one step of dumpalignment_main: one getopt_long   *)
(* iteration, the checks that follow the option loop, one iteration of the *)
(* inversion loop over the bases, fopen, the header fprintf, one iteration *)
(* of the row loop, fclose.                                                *)
(*                                                                         *)
(* Indices are 0-based in the program; TLA+ sequences are 1-based, so      *)
(* element j of a vector is seq[j + 1].                                    *)
(***************************************************************************)
EXTENDS Integers, Sequences, FiniteSets

\* ------------------------------------------------------------------ bounds
\* most options on the command line
MaxArgs == 3
\* most events of strand 0 in one read
MaxEvents == 2
\* most entries of sr.base_to_event_map in one read
MaxBases == 2
\* longest basecalled sequence
MaxSeqLen == 7

\* ------------------------------------------------------- program constants
\* int k = 6;
k == 6

Min(a, b) == IF a < b THEN a ELSE b

\* --------------------------------------------------------------- getopt
\* One command-line option as getopt_long hands it to the switch.  "-t0", "-t1" and
\* "-tx" are --threads with the argument 0, 1 and a non-numeric one, "-?"
\* is anything getopt_long answers with '?' (unknown option such as -s, or a
\* missing required argument), "-v" is --verbose, which has no case.
Options == {"-r", "-t0", "-t1", "-tx", "-o", "--scale-events", "--help", "--version", "-v", "-?"}

\* arg >> opt::num_threads : a failed extraction stores 0 (C++11).
ThreadsArg(o) == IF o = "-t1" THEN 1 ELSE 0

RECURSIVE SeqsUpTo(_, _)
SeqsUpTo(S, n) ==
    IF n = 0 THEN {<< >>}
    ELSE LET shorter == SeqsUpTo(S, n - 1)
         IN shorter \cup {Append(s, x) : s \in {t \in shorter : Len(t) = n - 1}, x \in S}

\* namespace opt, with its static initialisers
OptDefaults ==
    [reads_file |-> "", output_dir |-> "", scale_events |-> FALSE, num_threads |-> 1]

\* --------------------------------------------------- Read Data Provider
\* The basecalled sequence of a read: the model draws its length and takes
\* its bases from the pattern ACGTACGT...
Alphabet == <<"A", "C", "G", "T">>
ReadSequence(len) == [p \in 1..len |-> Alphabet[((p - 1) % 4) + 1]]

\* sequence lengths that meet every case of substr(base_idx, 6): base_idx
\* past the end, at the end, fewer than 6 bases left, 6 bases or more left.
SeqLens == {0} \cup (k..MaxSeqLen)

\* IndexPair of strand 0 for one base.  start and stop are ints and nothing
\* in dumpalignment_main validates them: the sentinel (-1, -1), intervals
\* inside the events, stop < start, stop past the last event and a start
\* below the sentinel are all drawn.
IndexPairs(E) ==
    {[start |-> -1, stop |-> -1], [start |-> -2, stop |-> E - 1]} \cup
    [start : 0..(E - 1), stop : 0..E]

\* sr.events[0]: event i (0-based) of the strand, as the provider's
\* accessors see it.
Events(E) ==
    [e \in 1..E |-> [mean |-> 60 + 5 * e, stdv |-> e, first |-> 10 * (e - 1), second |-> 10 * e - 2]]

NoRead == [read_sequence |-> << >>, events |-> << >>, base_to_event_map |-> << >>]

\* SquiggleRead sr(seq->name.s, read_db)
SquiggleReads ==
    UNION {
        [read_sequence : {ReadSequence(len) : len \in SeqLens},
         events : {Events(E)},
         base_to_event_map : SeqsUpTo(IndexPairs(E), MaxBases)]
        : E \in 0..MaxEvents }

get_event_sample_idx(r, i) == <<r.events[i + 1].first, r.events[i + 1].second>>
get_unscaled_level(r, i) == r.events[i + 1].mean
get_stdv(r, i) == r.events[i + 1].stdv
\* (level - shift) / scale of the read's calibration
get_fully_scaled_level(r, i) == (r.events[i + 1].mean - 10) \div 5

VARIABLES
    pc,                 \* position in dumpalignment_main
    argv,               \* options getopt_long has not returned yet
    npos,               \* argc - optind after the option loop
    die,                \* bool die of parse_dumpalignment_options
    opt,                \* namespace opt
    db_loaded,          \* read_db.load has run
    sr,                 \* the SquiggleRead of the current read
    event_to_base_map,  \* std::vector<int> event_to_base_map
    bi,                 \* i of the inversion loop
    written,            \* the indices j at which the inversion loop wrote
    heap_corrupt,       \* a write outside event_to_base_map has happened
    file_handle,        \* FILE* file_handle: "unset", "NULL", "open" or "closed"
    file,               \* the lines of <output_dir>/<name>.tsv
    null_writes,        \* the calls made on a NULL file_handle
    prev_idx,           \* int prev_idx
    ei                  \* i of the row loop

vars == <<pc, argv, npos, die, opt, db_loaded, sr, event_to_base_map, bi, written,
          heap_corrupt, file_handle, file, null_writes, prev_idx, ei>>

readVars == <<sr, event_to_base_map, bi, written, heap_corrupt, file_handle, file,
              null_writes, prev_idx, ei>>

Init ==
    /\ pc = "parse"
    /\ argv \in SeqsUpTo(Options, MaxArgs)
    /\ npos \in 0..1
    /\ die = FALSE
    /\ opt = OptDefaults
    /\ db_loaded = FALSE
    /\ sr = NoRead
    /\ event_to_base_map = << >>
    /\ bi = 0
    /\ written = {}
    /\ heap_corrupt = FALSE
    /\ file_handle = "unset"
    /\ file = << >>
    /\ null_writes = {}
    /\ prev_idx = 0
    /\ ei = 0

\* ------------------------------------------- parse_dumpalignment_options
\* the switch of the option loop, for the options that return to the loop
SwitchOpt(o, c) ==
    CASE c = "-r" -> [o EXCEPT !.reads_file = "reads.fa"]
      [] c \in {"-t0", "-t1", "-tx"} -> [o EXCEPT !.num_threads = ThreadsArg(c)]
      [] c = "-o" -> [o EXCEPT !.output_dir = "out"]
      [] c = "--scale-events" -> [o EXCEPT !.scale_events = TRUE]
      [] OTHER -> o

\* one iteration of for (char c; (c = getopt_long(...)) != -1;)
ParseOption ==
    /\ pc = "parse"
    /\ argv # << >>
    /\ LET c == Head(argv) IN
        /\ argv' = Tail(argv)
        /\ IF c \in {"--help", "--version"}
           THEN /\ pc' = "exit_success"
                /\ UNCHANGED <<opt, die>>
           ELSE /\ pc' = "parse"
                /\ opt' = SwitchOpt(opt, c)
                /\ die' = (die \/ c = "-?")
    /\ UNCHANGED <<npos, db_loaded>>
    /\ UNCHANGED readVars

\* the checks without the one of the thread count
DieAfterChecksNoThreads(d, n, o) ==
    d \/ n > 0 \/ o.reads_file = ""

\* bool die after the three checks that follow the option loop
DieAfterChecks(d, n, o) ==
    d \/ n > 0 \/ o.num_threads <= 0 \/ o.reads_file = ""

\* getopt_long returned -1: the checks, then exit(EXIT_FAILURE) or return
ParseFinish ==
    /\ pc = "parse"
    /\ argv = << >>
    /\ die' = DieAfterChecks(die, npos, opt)
    /\ pc' = IF die' THEN "exit_failure" ELSE "load_db"
    /\ UNCHANGED <<argv, npos, opt, db_loaded>>
    /\ UNCHANGED readVars

\* omp_set_num_threads; ReadDB read_db; read_db.load(opt::reads_file)
LoadDB ==
    /\ pc = "load_db"
    /\ db_loaded' = TRUE
    /\ pc' = "open_reads"
    /\ UNCHANGED <<argv, npos, die, opt>>
    /\ UNCHANGED readVars

\* fopen(reads_file, "r") and gzdopen: exit(EXIT_FAILURE) when either fails
OpenReads ==
    /\ pc = "open_reads"
    /\ \E ok \in BOOLEAN : pc' = IF ok THEN "next_read" ELSE "exit_failure"
    /\ UNCHANGED <<argv, npos, die, opt, db_loaded>>
    /\ UNCHANGED readVars

\* ------------------------------------------------------- the read loop
\* std::vector<int> event_to_base_map(sr.events[strand_idx].size(), -1)
InitialMap(r) == [e \in 1..Len(r.events) |-> -1]

\* (ret = kseq_read(seq)) >= 0 : the next read is loaded and its map is
\* allocated; or the reads are exhausted and main returns EXIT_SUCCESS.
KseqRead ==
    /\ pc = "next_read"
    /\ \/ /\ \E r \in SquiggleReads :
                /\ sr' = r
                /\ event_to_base_map' = InitialMap(r)
          /\ pc' = "invert"
          /\ UNCHANGED <<bi, written, heap_corrupt, file_handle, file, null_writes, prev_idx, ei>>
       \/ /\ pc' = "return_success"
          /\ UNCHANGED readVars
    /\ UNCHANGED <<argv, npos, die, opt, db_loaded>>

\* the values j takes in for(int j = ip.start; j != -1 && j <= ip.stop; ++j)
RECURSIVE LoopIndices(_, _)
LoopIndices(j, stop) ==
    IF j # -1 /\ j <= stop THEN {j} \cup LoopIndices(j + 1, stop) ELSE {}

\* the elements of a vector of n elements
InBounds(n) == 0..(n - 1)

\* event_to_base_map after event_to_base_map[j] = i for every j of W that is
\* an element of the vector
MapAfterWrites(map, W, i) ==
    [e \in 1..Len(map) |-> IF (e - 1) \in W THEN i ELSE map[e]]

\* One iteration of the loop over sr.base_to_event_map.  A write at an index
\* outside the vector is undefined behaviour: the process is killed at the
\* write, or the write lands in the heap next to the vector and the run goes
\* on over a corrupted heap (see HeapAbort).
InvertBase ==
    /\ pc = "invert"
    /\ bi < Len(sr.base_to_event_map)
    /\ LET ip == sr.base_to_event_map[bi + 1]
           W == LoopIndices(ip.start, ip.stop)
       IN /\ written' = written \cup W
          /\ event_to_base_map' = MapAfterWrites(event_to_base_map, W, bi)
          /\ IF W \subseteq InBounds(Len(event_to_base_map))
             THEN /\ pc' = "invert"
                  /\ UNCHANGED heap_corrupt
             ELSE /\ heap_corrupt' = TRUE
                  /\ pc' \in {"invert", "crashed"}
    /\ bi' = bi + 1
    /\ UNCHANGED <<argv, npos, die, opt, db_loaded>>
    /\ UNCHANGED <<sr, file_handle, file, null_writes, prev_idx, ei>>

\* i == sr.base_to_event_map.size(): the inversion loop is left
InvertDone ==
    /\ pc = "invert"
    /\ bi = Len(sr.base_to_event_map)
    /\ pc' = "open_out"
    /\ UNCHANGED <<argv, npos, die, opt, db_loaded>>
    /\ UNCHANGED readVars

\* file_handle = fopen(path.c_str(), "w"): the file is created or truncated,
\* or fopen returns NULL.  The result is not tested.
OpenOutput ==
    /\ pc = "open_out"
    /\ \E ok \in BOOLEAN : file_handle' = IF ok THEN "open" ELSE "NULL"
    /\ file' = << >>
    /\ pc' = "header"
    /\ UNCHANGED <<argv, npos, die, opt, db_loaded>>
    /\ UNCHANGED <<sr, event_to_base_map, bi, written, heap_corrupt, null_writes, prev_idx, ei>>

HeaderLine ==
    [kind |-> "header",
     cols |-> <<"event_index", "base_index", "strand_index", "event_mean", "event_stdv",
                "raw_start", "raw_length", "kmer">>]

\* fprintf(file_handle, header); int k = 6; int prev_idx = 0; i = 0.
\* fprintf on a NULL stream is undefined behaviour: the process is killed in
\* the C library, or the call returns without writing.
WriteHeader ==
    /\ pc = "header"
    /\ IF file_handle = "open"
       THEN /\ file' = Append(file, HeaderLine)
            /\ pc' = "rows"
            /\ UNCHANGED null_writes
       ELSE /\ null_writes' = null_writes \cup {"header"}
            /\ pc' \in {"rows", "crashed"}
            /\ UNCHANGED file
    /\ prev_idx' = 0
    /\ ei' = 0
    /\ UNCHANGED <<argv, npos, die, opt, db_loaded>>
    /\ UNCHANGED <<sr, event_to_base_map, bi, written, heap_corrupt, file_handle>>

\* substr that starts one character late
SubstrFromNext(s, pos, n) == SubSeq(s, pos + 2, Min(pos + 1 + n, Len(s)))

\* std::string::substr(pos, n) for pos <= size(): the characters from pos to
\* the end, n of them at most
Substr(s, pos, n) == SubSeq(s, pos + 1, Min(pos + n, Len(s)))

\* substr throws std::out_of_range when pos > size()
SubstrThrows(s, pos) == pos > Len(s)

Placeholder == <<"N", "N", "N", "N", "N", "N">>

\* event_to_base_map[i] >= 0
Assigned(map, i) == map[i + 1] >= 0

\* int base_idx = prev_idx; if(event_to_base_map[i] >= 0) base_idx = ...
BaseIdx(map, pidx, i) == IF Assigned(map, i) THEN map[i + 1] ELSE pidx

\* std::string kmer = "NNNNNN"; if(...) kmer = sr.read_sequence.substr(base_idx, k)
Kmer(r, map, pidx, i) ==
    IF Assigned(map, i) THEN Substr(r.read_sequence, BaseIdx(map, pidx, i), k) ELSE Placeholder

\* float event_mean = sr.get_unscaled_level(i, strand_idx);
\* if(opt::scale_events) event_mean = sr.get_fully_scaled_level(i, strand_idx)
EventMean(r, i, scale) ==
    IF scale THEN get_fully_scaled_level(r, i) ELSE get_unscaled_level(r, i)

\* a standard deviation that follows the scale flag as the mean does
EventStdvScaled(r, i, scale) ==
    IF scale THEN get_stdv(r, i) \div 5 ELSE get_stdv(r, i)

\* float event_stdv = sr.get_stdv(i, strand_idx)
EventStdv(r, i, scale) == get_stdv(r, i)

\* the arguments of the fprintf that ends the body of the row loop
OutputRow(r, map, pidx, i, scale) ==
    LET sample_range == get_event_sample_idx(r, i) IN
    [kind |-> "row",
     event_index |-> i,
     base_index |-> BaseIdx(map, pidx, i),
     strand_index |-> 0,
     event_mean |-> EventMean(r, i, scale),
     event_stdv |-> EventStdv(r, i, scale),
     raw_start |-> sample_range[1],
     raw_length |-> sample_range[2] - sample_range[1],
     kmer |-> Kmer(r, map, pidx, i)]

\* a row loop that steps over an event
NextEventSkips(i) == i + 2

\* i after one pass of the row loop
NextEvent(i) == i + 1

\* One iteration of the row loop.  substr throws when base_idx is past the
\* end of the sequence; nothing catches it, so the process is terminated.
\* prev_idx is not assigned in the body.
EmitRow ==
    /\ pc = "rows"
    /\ ei < Len(sr.events)
    /\ IF Assigned(event_to_base_map, ei)
          /\ SubstrThrows(sr.read_sequence, BaseIdx(event_to_base_map, prev_idx, ei))
       THEN /\ pc' = "terminated"
            /\ UNCHANGED <<file, null_writes, ei>>
       ELSE IF file_handle = "open"
       THEN /\ file' = Append(file, OutputRow(sr, event_to_base_map, prev_idx, ei, opt.scale_events))
            /\ ei' = NextEvent(ei)
            /\ pc' = "rows"
            /\ UNCHANGED null_writes
       ELSE /\ null_writes' = null_writes \cup {"row"}
            /\ ei' = NextEvent(ei)
            /\ pc' \in {"rows", "crashed"}
            /\ UNCHANGED file
    /\ UNCHANGED <<argv, npos, die, opt, db_loaded>>
    /\ UNCHANGED <<sr, event_to_base_map, bi, written, heap_corrupt, file_handle, prev_idx>>

\* i == sr.events[strand_idx].size(): fclose(file_handle), end of the body
\* of the read loop.  fclose(NULL) is undefined behaviour as fprintf is.
CloseOutput ==
    /\ pc = "rows"
    /\ ei = Len(sr.events)
    /\ IF file_handle = "open"
       THEN /\ file_handle' = "closed"
            /\ pc' = "read_done"
            /\ UNCHANGED null_writes
       ELSE /\ null_writes' = null_writes \cup {"fclose"}
            /\ pc' \in {"read_done", "crashed"}
            /\ UNCHANGED file_handle
    /\ UNCHANGED <<argv, npos, die, opt, db_loaded>>
    /\ UNCHANGED <<sr, event_to_base_map, bi, written, heap_corrupt, file, prev_idx, ei>>

\* The closing brace of the read loop: sr, event_to_base_map, path and
\* file_handle go out of scope.
EndOfBody ==
    /\ pc = "read_done"
    /\ sr' = NoRead
    /\ event_to_base_map' = << >>
    /\ bi' = 0
    /\ written' = {}
    /\ file_handle' = "unset"
    /\ file' = << >>
    /\ null_writes' = {}
    /\ prev_idx' = 0
    /\ ei' = 0
    /\ pc' = "next_read"
    /\ UNCHANGED <<argv, npos, die, opt, db_loaded, heap_corrupt>>

\* After a write outside event_to_base_map the heap is corrupted: the
\* allocator may abort the process at any later step of the run.
HeapAbort ==
    /\ heap_corrupt
    /\ pc \in {"next_read", "invert", "open_out", "header", "rows", "read_done"}
    /\ pc' = "crashed"
    /\ UNCHANGED <<argv, npos, die, opt, db_loaded>>
    /\ UNCHANGED readVars

Next ==
    \/ ParseOption
    \/ ParseFinish
    \/ LoadDB
    \/ OpenReads
    \/ KseqRead
    \/ InvertBase
    \/ InvertDone
    \/ OpenOutput
    \/ WriteHeader
    \/ EmitRow
    \/ CloseOutput
    \/ EndOfBody
    \/ HeapAbort

Spec == Init /\ [][Next]_vars

\* ------------------------------------------------------------ properties
Max(S) == CHOOSE m \in S : \A x \in S : x <= m

\* the number of events of strand 0 and the number of bases of the read
NumEvents == Len(sr.events)
NumBases == Len(sr.base_to_event_map)

\* BaseRange ip is an interval, not the sentinel, and event i lies in it
Contains(ip, i) == ip.start # -1 /\ ip.start <= i /\ i <= ip.stop

\* the bases whose BaseRange contains event i
Containing(i) == {b \in 0..(NumBases - 1) : Contains(sr.base_to_event_map[b + 1], i)}

\* the row of event i has been written: it is line i + 2 of the file
Emitted(i) == file_handle \in {"open", "closed"} /\ Len(file) >= i + 2
RowOf(i) == file[i + 2]

\* the bases of the sequence from b on, 6 of them at most
KmerAt(b) == SubSeq(sr.read_sequence, b + 1, Min(b + k, Len(sr.read_sequence)))

\* the inversion loop has walked the whole range table
Inverted == pc \in {"open_out", "header", "rows", "read_done"}

\* no step of the run so far had undefined behaviour
Defined == ~heap_corrupt /\ null_writes = {}

\* C1 (as claimed): in a run without undefined behaviour, the row of an
\* event that no BaseRange contains carries the base index of the row of the
\* nearest preceding event that some BaseRange contains, and 0 when no
\* preceding event is contained.
C1_CarryForward ==
    \A i \in 0..(NumEvents - 1) :
        (Defined /\ Emitted(i) /\ Containing(i) = {}) =>
            LET before == {p \in 0..(i - 1) : Containing(p) # {}}
            IN RowOf(i).base_index =
                   IF before = {} THEN 0 ELSE RowOf(Max(before)).base_index

\* C2 (as claimed): in every emitted row, carried-forward ones included, a
\* base index b with b + 6 <= len(sequence) comes with the k-mer
\* sequence[b : b+6] (stated for the runs without undefined behaviour).
C2_KmerConsistencyAllRows ==
    \A i \in 0..(NumEvents - 1) :
        (Defined /\ Emitted(i) /\ RowOf(i).base_index + k <= Len(sr.read_sequence)) =>
            RowOf(i).kmer = KmerAt(RowOf(i).base_index)

\* C2 (amended): in every emitted row of an event whose map entry is a base
\* index b >= 0, b + 6 <= len(sequence) implies that the k-mer is
\* sequence[b : b+6]; the row of an event whose map entry is -1 carries the
\* placeholder NNNNNN.
C2_KmerConsistencyAssignedRows ==
    \A i \in 0..(NumEvents - 1) :
        Emitted(i) =>
            IF event_to_base_map[i + 1] >= 0
            THEN /\ RowOf(i).base_index = event_to_base_map[i + 1]
                 /\ (RowOf(i).base_index + k <= Len(sr.read_sequence)
                        => /\ Len(RowOf(i).kmer) = k
                           /\ \A c \in 1..k :
                                RowOf(i).kmer[c] = sr.read_sequence[RowOf(i).base_index + c])
            ELSE RowOf(i).kmer = <<"N", "N", "N", "N", "N", "N">>

\* C2 witness: a row of an assigned event beyond base 0 with a full k-mer,
\* next to a row of a base-less event.
C2_Witness ==
    /\ \E i \in 0..(NumEvents - 1) :
          /\ Emitted(i)
          /\ event_to_base_map[i + 1] >= 1
          /\ event_to_base_map[i + 1] + k <= Len(sr.read_sequence)
    /\ \E i \in 0..(NumEvents - 1) : Emitted(i) /\ event_to_base_map[i + 1] = -1

\* a BaseRange with start >= 0 and stop < start
Malformed(ip) == ip.start >= 0 /\ ip.stop < ip.start

\* the Inverter has met a malformed BaseRange in the current read
MalformedMet == \E b \in 0..(bi - 1) : Malformed(sr.base_to_event_map[b + 1])

\* C3 (as claimed): once the Inverter has met a malformed BaseRange the
\* read's processing is in a fault state: it neither goes on inverting nor
\* reaches the emission of the read.  The program has no state for a
\* data-integrity fault, so every abnormal end is taken for one.
C3_MalformedRangeIsFault ==
    MalformedMet => pc \in {"crashed", "terminated"}

\* C4 (as claimed): in a run without undefined behaviour the k-mer step
\* never ends the run, and the row of every event with a map entry b >= 0
\* carries the bases from b to the end of the sequence, 6 at most.
C4_KmerNeverFaults ==
    Defined =>
    /\ pc # "terminated"
    /\ \A i \in 0..(NumEvents - 1) :
          (Emitted(i) /\ event_to_base_map[i + 1] >= 0) =>
              RowOf(i).kmer = KmerAt(event_to_base_map[i + 1])

\* C5 (as claimed): when the output file cannot be opened (in a run whose
\* heap is intact) the read is aborted: no call is made on the NULL stream
\* and the row loop and the end of the read are not reached.
C5_UnwritableAbortsRead ==
    (file_handle = "NULL" /\ ~heap_corrupt) =>
        (null_writes = {} /\ pc \notin {"rows", "read_done"})

\* C6 (as claimed): after the inversion, the map entry of an event that
\* some BaseRange with start # -1 contains is the highest base whose range
\* contains it, and so is the base index of its row; the map entry of an
\* event in no range is -1.
C6_OverwriteRule ==
    Inverted =>
        \A i \in 0..(NumEvents - 1) :
            IF Containing(i) # {}
            THEN /\ event_to_base_map[i + 1] = Max(Containing(i))
                 /\ Emitted(i) => RowOf(i).base_index = Max(Containing(i))
            ELSE event_to_base_map[i + 1] = -1

\* The overwrite rule for the tables whose ranges start at an event index or
\* at the sentinel: C6 restricted to the reads in which no range starts
\* below -1.  It holds, which locates the failure of C6 in the ranges that
\* make the Inverter write outside the map (C10).
OverwriteRuleWithoutLowStarts ==
    (\A b \in 0..(NumBases - 1) : sr.base_to_event_map[b + 1].start >= -1) => C6_OverwriteRule

\* the read has been processed to completion: its file was opened, the row
\* loop has run to its end and the file is closed
Completed == pc = "read_done" /\ file_handle = "closed"

\* C7: the output file of a read is one header line followed by rows whose
\* event indices are 0, 1, 2, ... in this order, and the file of a read
\* processed to completion has exactly one row per event of strand 0.
C7_OneRowPerEventInOrder ==
    /\ \A n \in 1..Len(file) :
          IF n = 1 THEN file[n].kind = "header"
          ELSE file[n].kind = "row" /\ file[n].event_index = n - 2
    /\ (file_handle = "open" /\ pc = "rows") => Len(file) = 1 + ei
    /\ Completed => Len(file) = 1 + NumEvents

\* C7 witness: a read of two events or more processed to completion
C7_Witness == Completed /\ NumEvents >= 2 /\ Len(file) = 1 + NumEvents

\* C8: every emitted row agrees with the row that the same read yields
\* under the other setting of scale_events in every field but event_mean.
C8_ScaleAffectsOnlyEventMean ==
    \A i \in 0..(NumEvents - 1) :
        Emitted(i) =>
            LET mine == RowOf(i)
                other == OutputRow(sr, event_to_base_map, prev_idx, i, ~opt.scale_events)
            IN /\ mine.event_index = other.event_index
               /\ mine.base_index = other.base_index
               /\ mine.strand_index = other.strand_index
               /\ mine.event_stdv = other.event_stdv
               /\ mine.raw_start = other.raw_start
               /\ mine.raw_length = other.raw_length
               /\ mine.kmer = other.kmer

\* C8 witness: a read emitted with scale_events set, whose rows of an
\* assigned and of a base-less event carry a mean that differs from the
\* unscaled one.
C8_Witness ==
    /\ opt.scale_events
    /\ Completed
    /\ \E i \in 0..(NumEvents - 1) :
          /\ event_to_base_map[i + 1] >= 0
          /\ RowOf(i).event_mean # get_unscaled_level(sr, i)
    /\ \E i \in 0..(NumEvents - 1) :
          /\ event_to_base_map[i + 1] = -1
          /\ RowOf(i).event_mean # get_unscaled_level(sr, i)

\* the configuration is faulty: an option was unparseable, there are extra
\* positional arguments, the thread count is not positive or there is no
\* reads file
ConfigFault == die \/ npos > 0 \/ opt.num_threads <= 0 \/ opt.reads_file = ""

\* nothing of the run proper has happened
NoWorkDone ==
    /\ ~db_loaded
    /\ sr = NoRead
    /\ file_handle = "unset"
    /\ file = << >>

\* C9 (as claimed): once the parser is left with a faulty configuration the
\* process has exited with a failure status and no work was done.
C9_ConfigFaultExitsWithFailure ==
    (pc # "parse" /\ ConfigFault) => (pc = "exit_failure" /\ NoWorkDone)

\* C9 (amended): once the parser is left with a faulty configuration the
\* process has exited and no work was done; it has exited with a success
\* status only at a --help or --version option, and with a failure status
\* before the database is loaded only for a faulty configuration; with a
\* valid configuration the end of the option loop leads to the load of the
\* database.
C9_ConfigFaultExitsBeforeWork ==
    /\ [](  /\ (pc # "parse" /\ ConfigFault) =>
                   (pc \in {"exit_failure", "exit_success"} /\ NoWorkDone)
            /\ (pc = "exit_failure" /\ ~db_loaded) => ConfigFault
            /\ (pc \in {"parse", "exit_success"}) => NoWorkDone )
    /\ [][ /\ (pc = "parse" /\ pc' = "exit_success") => Head(argv) \in {"--help", "--version"}
           /\ (pc = "parse" /\ pc' = "exit_failure") => (argv = << >> /\ ConfigFault')
           /\ (pc = "parse" /\ argv = << >> /\ ~ConfigFault) => pc' = "load_db" ]_vars

\* C9 witness: the run stopped with a failure status on a thread count that
\* is not positive, with the reads file given and nothing else wrong
C9_Witness ==
    /\ pc = "exit_failure"
    /\ opt.num_threads <= 0
    /\ opt.reads_file # ""
    /\ npos = 0
    /\ NoWorkDone

\* C10 (as claimed): every index at which the Inverter wrote is an element
\* of event_to_base_map.
C10_InverterWritesInBounds ==
    written \subseteq InBounds(Len(event_to_base_map))
====
